---- MODULE Spec2Model ----
(***************************************************************************)
(* Batch scheduler of the scraping orchestrator: OrchestratorRunner        *)
(* (esdata/scheduler.py) on top of TaskRepository (esdata/database.py),    *)
(* driven by cmd_run (esdata_run/core/orchestrator.py).                    *)
(*                                                                         *)
(* The store (tasks, batch) survives a process crash; everything else is   *)
(* the memory of one run_batch call and is lost when the process dies.     *)
(*                                                                         *)
(* A behaviour starts where prepare_batch hands the batch to run_batch:    *)
(* the planned items are inserted and the batch row is open.  (The INSERT  *)
(* of TaskRepository.create_batch, database.py 167-175, binds six values   *)
(* to five placeholders and raises; the open row is taken here as the      *)
(* input of run_batch, as find_open_batch returns it on a resume.)         *)
(***************************************************************************)
EXTENDS Integers, Sequences, FiniteSets, TLC

\* ------------------------------------------------------------------------
\* Bounds of the model
\* ------------------------------------------------------------------------
MaxRows == 2
MaxAttemptsCfg == 2
MaxParallelCfg == 2
MaxCrashes == 1
\* most a child of the model writes to standard error
MaxStderr == 3
RetryDelay == 1

\* ------------------------------------------------------------------------
\* Configuration and catalog
\* ------------------------------------------------------------------------
\* websites_priority(): the configured sites sorted by priority
PrioritySites == <<"A", "B", "C">>

\* every site code a catalog row can normalise to; "U" is not configured
AllSites == {"A", "B", "C", "U"}

\* detail_scraper_for(site) is not None
HasDetail(site) == site = "A"

\* rows of the input CSV files: site code and order (index + 1 in the file)
RowSite == <<"A", "A", "B", "C", "U">>
RowOrder == <<1, 2, 1, 1, 1>>
\* the CSV file the row is read from: <scraper_name>_urls.csv
RowScraper == <<"a", "a", "b", "c", "u">>
\* city, operation and product codes of the row; the two rows of site A differ in
\* their URL only
RowSegment == <<"Gdl_Ven_Dep", "Gdl_Ven_Dep", "Gdl_Ven_Dep", "Gdl_Ven_Dep", "Gdl_Ven_Dep">>
Rows == DOMAIN RowSite

\* the two items planned from row r
Main(r) == 2 * r - 1
Detail(r) == 2 * r
AllTasks == 1..(2 * Len(RowSite))

IsDetail(t) == t % 2 = 0
RowOf(t) == (t + 1) \div 2
Site(t) == RowSite[RowOf(t)]
Order(t) == RowOrder[RowOf(t)]
\* the primary planned from the row of detail t
DependsOn(t) == t - 1

\* detail_scraper_for(site) when the site declares a detail stage
detail_scraper_for(site) == IF HasDetail(site) THEN "a_det" ELSE "none"

\* scraper_name of the item
scraper_name(t) ==
    IF IsDetail(t) THEN detail_scraper_for(Site(t)) ELSE RowScraper[RowOf(t)]

Kind(t) == IF IsDetail(t) THEN "detail" ELSE "main"

task_key_without_kind(t) ==
    <<scraper_name(Main(RowOf(t))), Site(t), RowSegment[RowOf(t)], Order(t), "main">>

\* task_key: scraper_name, website, city, operation, product, order, main or detail
task_key(t) == <<scraper_name(t), Site(t), RowSegment[RowOf(t)], Order(t), Kind(t)>>

\* depends_on of a detail: task.task_key() of the primary emitted just before it
depends_on(t) == task_key(DependsOn(t))

\* the items whose task_key is that of t
KeyMates == [t \in AllTasks |-> {u \in AllTasks : task_key(u) = task_key(t)}]

\* WHERE depends_on = main.task_key()
Dependents ==
    [main \in AllTasks |-> {d \in AllTasks : IsDetail(d) /\ depends_on(d) = task_key(main)}]

PlannedDetailForEveryRow(catalog) ==
    {Main(r) : r \in catalog} \cup {Detail(r) : r \in catalog}

\* UrlLoader.load: one primary per row, one blocked detail if the site has one
Planned(catalog) ==
    {Main(r) : r \in catalog} \cup {Detail(r) : r \in {x \in catalog : HasDetail(RowSite[x])}}

Catalogs == {c \in SUBSET Rows : Cardinality(c) >= 1 /\ Cardinality(c) <= MaxRows}

NoPath == <<>>

\* expected_filename: site, city, operation, product, with URL after the site for a
\* primary; month_year and execution_number are those of the batch
expected_filename(t) == <<Site(t), Kind(t), RowSegment[RowOf(t)]>>

\* _build_output_dir: data_path / website / city / operation / product / month / number
build_output_dir(t) == <<Site(t), RowSegment[RowOf(t)]>>

\* output_dir / expected_filename of the item
OutputFile(t) == <<build_output_dir(t), expected_filename(t)>>

VARIABLES
    tasks,          \* scraping_tasks rows of the batch
    batch,          \* execution_batches row
    max_attempts,   \* execution.max_retry_attempts
    max_parallel,   \* execution.max_parallel_scrapers
    pc,             \* position of the process
    pending_main,   \* run_batch: site -> queue of primaries
    detail_queue,
    active_sites,
    retry_heap,     \* entries [task, wait], wait = due_time - now
    running,
    rotation_pos,   \* position of rotation_iter
    done,           \* result set of asyncio.wait still to reap
    cur,            \* result being reaped
    mem_attempts,   \* task.attempts of the in-memory task objects
    mem_dep,        \* task.dependency_path of the in-memory task objects
    last_sample,    \* ResourceLimiter._last_sample
    crashes,        \* times the process died: kill, KeyboardInterrupt, exception out of run_batch
    launches,       \* history: number of children started for the item (adapter.run calls)
    cooldown,       \* history: time left until retry_delay has passed since the item's last
                    \* failure with will_retry
    interrupted,    \* history: the process was stopped by a KeyboardInterrupt
    observed,       \* history: what the workers of the last asyncio.wait met, kept until
                    \* the first of their results is handled
    cmd,            \* what the last cmd_run without --resume did
    blocked,        \* workers whose child waits for room in the stderr pipe
    store_error     \* history: the result whose store commit raised and ended the process

vars == <<tasks, batch, max_attempts, max_parallel, pc, pending_main, detail_queue,
          active_sites, retry_heap, running, rotation_pos, done, cur,
          mem_attempts, mem_dep, last_sample, crashes, launches, cooldown,
          interrupted, observed, cmd, blocked, store_error>>

storeVars == <<tasks, batch>>
configVars == <<max_attempts, max_parallel>>
memVars == <<pending_main, detail_queue, active_sites, retry_heap, running,
             rotation_pos, done, cur, mem_attempts, mem_dep, last_sample>>
histVars == <<launches, cooldown, interrupted, observed>>

\* ------------------------------------------------------------------------
\* Helpers
\* ------------------------------------------------------------------------
NoTask == 0
NoResult == [task |-> NoTask, success |-> FALSE, raised |-> FALSE]

AbsentRow == [status |-> "absent", attempts |-> 0, max_attempts |-> 0, started_at |-> FALSE,
              error_message |-> "none", output_path |-> NoPath, dependency_path |-> NoPath]

EmptyQueues == [s \in AllSites |-> <<>>]

\* no row in execution_batches
NoBatch == [status |-> "none", total_tasks |-> 0, completed_tasks |-> 0, failed_tasks |-> 0]

\* outcome: what the command came to; rows: len(tasks) of the loaded plan;
\* stored: the rows scraping_tasks holds under the batch_id the command formed;
\* batch: the row execution_batches holds under that batch_id
NoCmd ==
    [outcome |-> "none", rows |-> 0, desired |-> 0, execution_number |-> 0,
     stored |-> {}, batch |-> NoBatch]

\* ------------------------------------------------------------------------
\* ResourceLimiter (percent of the machine)
\* ------------------------------------------------------------------------
cpu_target == 80
memory_target == 80
NoSample == [cpu_percent |-> -1, memory_percent |-> -1]

\* what a fresh sample can be; without psutil it is cpu 0, memory 0
Samples ==
    {[cpu_percent |-> 0, memory_percent |-> 0],
     [cpu_percent |-> cpu_target, memory_percent |-> 0],
     [cpu_percent |-> 0, memory_percent |-> memory_target]}

\* _sample: the cached snapshot while it is younger than sample_interval, or a fresh one
Sampled(last) == IF last = NoSample THEN Samples ELSE Samples \cup {last}

allows_new_task_inclusive(snapshot) ==
    snapshot.cpu_percent <= cpu_target /\ snapshot.memory_percent <= memory_target

allows_new_task(snapshot) ==
    snapshot.cpu_percent < cpu_target /\ snapshot.memory_percent < memory_target

\* ------------------------------------------------------------------------
\* Worker: _execute_task and ScraperAdapter.run
\* ------------------------------------------------------------------------
\* what a worker meets: the data directory, the collector script, the file its
\* dependency_path names, the interpreter, the child's exit code and its output file
GoodEnvironment ==
    [mkdir |-> "ok", script |-> "found", dependency_file |-> "written", popen |-> "ok",
     returncode |-> 0, output |-> "written"]

Environments ==
    {GoodEnvironment,
     [GoodEnvironment EXCEPT !.mkdir = "error"],
     [GoodEnvironment EXCEPT !.script = "missing"],
     [GoodEnvironment EXCEPT !.dependency_file = "missing"],
     [GoodEnvironment EXCEPT !.dependency_file = "empty"],
     [GoodEnvironment EXCEPT !.popen = "error"],
     [GoodEnvironment EXCEPT !.returncode = 1, !.output = "missing"],
     [GoodEnvironment EXCEPT !.output = "missing"],
     [GoodEnvironment EXCEPT !.output = "empty"]}

\* a primary has no dependency file to meet
EnvironmentsOf(t) ==
    IF IsDetail(t) THEN Environments
    ELSE {env \in Environments : env.dependency_file = "written"}

ensure_output_file_existing(env) == env.output \in {"written", "empty"}

\* _ensure_output_file: output_file.exists() and st_size > 0
ensure_output_file(env) == env.output = "written"

\* run, lines 44-47: task.is_detail and dependency_path and not dependency_path.exists()
DependencyMissing(t, dep, env) ==
    IsDetail(t) /\ dep # NoPath /\ env.dependency_file = "missing"

\* run reaches subprocess.Popen
PopenCalled(t, dep, env) == env.script = "found" /\ ~DependencyMissing(t, dep, env)

\* a child process exists
Spawned(t, dep, env) == PopenCalled(t, dep, env) /\ env.popen = "ok"

\* ScraperAdapter.run: TRUE when it returns output_file, FALSE when it raises
adapter_run(t, dep, env) ==
    /\ Spawned(t, dep, env)
    /\ env.returncode = 0
    /\ ensure_output_file(env)

\* _execute_task: mkdir stands before the try, its exception is the worker's outcome;
\* whatever adapter.run raises becomes a failure result
execute_task(t, dep, env) ==
    IF env.mkdir = "error"
    THEN [task |-> t, success |-> FALSE, raised |-> TRUE]
    ELSE [task |-> t, success |-> adapter_run(t, dep, env), raised |-> FALSE]

EmptyMemory ==
    /\ pending_main = EmptyQueues
    /\ detail_queue = <<>>
    /\ active_sites = {}
    /\ retry_heap = <<>>
    /\ running = {}
    /\ rotation_pos = 1
    /\ done = {}
    /\ cur = NoResult
    /\ mem_attempts = [t \in AllTasks |-> 0]
    /\ mem_dep = [t \in AllTasks |-> NoPath]
    /\ last_sample = NoSample

RECURSIVE SortedSeq(_)
\* ORDER BY order_num ASC, rows of equal order_num in insertion order
SortedSeq(S) ==
    IF S = {} THEN <<>>
    ELSE LET m == CHOOSE x \in S : \A y \in S : Order(x) * 100 + x <= Order(y) * 100 + y
         IN <<m>> \o SortedSeq(S \ {m})

SeqToSet(q) == {q[i] : i \in DOMAIN q}


\* ------------------------------------------------------------------------
\* TaskRepository
\* ------------------------------------------------------------------------
NewRow(t, maxAtt) ==
    [AbsentRow EXCEPT !.status = IF IsDetail(t) THEN "blocked" ELSE "pending",
                      !.max_attempts = maxAtt]

\* INSERT OR REPLACE in place of INSERT OR IGNORE
insert_or_replace_tasks(ts, planned, maxAtt) ==
    [t \in AllTasks |-> IF t \in planned THEN NewRow(t, maxAtt) ELSE ts[t]]

\* the unique index (batch_id, task_key) holds a row with the key of t: one stored
\* before, or one inserted earlier in the same executemany
KeyTaken(ts, planned, t) ==
    \E u \in KeyMates[t] : ts[u].status # "absent" \/ (u \in planned /\ u < t)

\* INSERT OR IGNORE on the unique index (batch_id, task_key)
insert_tasks(ts, planned, maxAtt) ==
    [t \in AllTasks |->
        IF t \in planned /\ ~KeyTaken(ts, planned, t) THEN NewRow(t, maxAtt) ELSE ts[t]]

reset_running_tasks(ts) ==
    [t \in AllTasks |->
        IF ts[t].status = "running"
        THEN [ts[t] EXCEPT !.status = "pending", !.started_at = FALSE]
        ELSE ts[t]]

update_batch_progress(b, completed_delta, failed_delta) ==
    [b EXCEPT !.completed_tasks = @ + completed_delta, !.failed_tasks = @ + failed_delta]

mark_batch_failed(b) == [b EXCEPT !.status = "failed"]

mark_batch_completed(b) == [b EXCEPT !.status = "completed"]

mark_task_running_counting(ts, t) ==
    [ts EXCEPT ![t].status = "running", ![t].started_at = TRUE, ![t].attempts = @ + 1]

\* attempts = COALESCE(attempts, 0): the launch leaves the counter alone
mark_task_running(ts, t) ==
    [ts EXCEPT ![t].status = "running", ![t].started_at = TRUE]

mark_task_completed(ts, t, path) ==
    [ts EXCEPT ![t].status = "completed", ![t].output_path = path]

mark_task_failed(ts, t, will_retry) ==
    [ts EXCEPT ![t].status = IF will_retry THEN "retrying" ELSE "failed",
               ![t].error_message = "error",
               ![t].attempts = @ + 1]

\* rows selected by release_detail_tasks (as they are before the UPDATE)
ReleasedRows(ts, main) ==
    {d \in Dependents[main] : ts[d].status = "blocked"}

release_detail_tasks(ts, main, path) ==
    [t \in AllTasks |->
        IF t \in ReleasedRows(ts, main)
        THEN [ts[t] EXCEPT !.status = "pending", !.dependency_path = path]
        ELSE ts[t]]

remaining_task_count(ts) ==
    Cardinality({t \in AllTasks : ts[t].status \notin {"absent", "completed", "failed"}})

\* all_tasks(batch_id)
all_tasks(ts) == SortedSeq({t \in AllTasks : ts[t].status # "absent"})

\* ------------------------------------------------------------------------
\* OrchestratorRunner
\* ------------------------------------------------------------------------
QueueableWithCompleted(st) == st \in {"pending", "retrying", "completed"}

QueueableWithFailed(st) == st \in {"pending", "retrying", "failed"}

QueueableWithBlocked(st) == st \in {"pending", "retrying", "blocked"}

\* run_batch, lines 70-79: which stored statuses are put on a queue
Queueable(st) == st \in {"pending", "retrying"}

\* will_retry = task.attempts + 1 < task.max_attempts
WillRetry(att, maxAtt) == att + 1 < maxAtt

AtCapacityOffByOne(n, cap) == n > cap

\* len(running) >= self.max_parallel
AtCapacity(n, cap) == n >= cap

SiteFreeIgnoringActive(site, active) == TRUE

\* site_code not in active_sites
SiteFree(site, active) == site \notin active

primary_site_last == IF Len(PrioritySites) > 0 THEN PrioritySites[Len(PrioritySites)] ELSE "none"

\* priority_sites[0] if priority_sites else None
primary_site == IF Len(PrioritySites) > 0 THEN PrioritySites[1] ELSE "none"
rotation_sites == SelectSeq(PrioritySites, LAMBDA s : s # primary_site)

\* the queues of run_batch as rebuilt from the store
LoadedMain(ts) ==
    [s \in AllSites |->
        SelectSeq(all_tasks(ts), LAMBDA t : Queueable(ts[t].status) /\ ~IsDetail(t) /\ Site(t) = s)]

LoadedDetail(ts) ==
    SelectSeq(all_tasks(ts), LAMBDA t : Queueable(ts[t].status) /\ IsDetail(t))

\* run_batch up to the first call of schedule_next_task
Load(ts) ==
    /\ pending_main' = LoadedMain(ts)
    /\ detail_queue' = LoadedDetail(ts)
    /\ active_sites' = {}
    /\ retry_heap' = <<>>
    /\ running' = {}
    /\ rotation_pos' = 1
    /\ done' = {}
    /\ cur' = NoResult
    /\ mem_attempts' = [t \in AllTasks |-> ts[t].attempts]
    /\ mem_dep' = [t \in AllTasks |-> ts[t].dependency_path]
    /\ last_sample' = NoSample
    /\ pc' = "schedule"

RECURSIVE ReadyPrefix(_)
\* the tasks _requeue_ready_retries pops: entries with due_time <= now
ReadyPrefix(h) ==
    IF h = <<>> \/ Head(h).wait > 0 THEN <<>>
    ELSE <<Head(h).task>> \o ReadyPrefix(Tail(h))

RequeuedHeap(h) == SubSeq(h, Len(ReadyPrefix(h)) + 1, Len(h))
RequeuedDetail(h, dq) == dq \o SelectSeq(ReadyPrefix(h), IsDetail)
RequeuedMain(h, pm) ==
    [s \in AllSites |->
        pm[s] \o SelectSeq(ReadyPrefix(h), LAMBDA t : ~IsDetail(t) /\ Site(t) = s)]

\* the detail scan: index of the first queued detail whose site is free, or 0
FirstFreeDetail(dq, active) ==
    IF \E i \in DOMAIN dq : SiteFree(Site(dq[i]), active)
    THEN CHOOSE i \in DOMAIN dq :
            /\ SiteFree(Site(dq[i]), active)
            /\ \A j \in 1..(i - 1) : ~SiteFree(Site(dq[j]), active)
    ELSE 0

\* the queue after the scan launched entry i: the skipped entries went to the tail
RotatedDetail(dq, i) == SubSeq(dq, i + 1, Len(dq)) \o SubSeq(dq, 1, i - 1)

\* the site next(rotation_iter) returns on its k-th call (k = 0 first)
RotationSite(pos, k) == rotation_sites[((pos - 1 + k) % Len(rotation_sites)) + 1]

NextPosRestarting(pos, k) == 1

\* where rotation_iter stands after k + 1 calls of next
NextPos(pos, k) == ((pos + k) % Len(rotation_sites)) + 1

RotationOk(pm, active, site) == pm[site] # <<>> /\ SiteFree(site, active)

\* number of sites the rotation scan skips before it finds one, or -1
RotationHit(pm, active, pos) ==
    LET n == Len(rotation_sites)
    IN IF \E k \in 0..(n - 1) : RotationOk(pm, active, RotationSite(pos, k))
       THEN CHOOSE k \in 0..(n - 1) :
                /\ RotationOk(pm, active, RotationSite(pos, k))
                /\ \A j \in 0..(k - 1) : ~RotationOk(pm, active, RotationSite(pos, j))
       ELSE -1

\* the stages of schedule_next_task with the primaries served before the details
PickPrimaryFirst(dq, pm, active, pos) ==
    LET i == FirstFreeDetail(dq, active)
        k == IF Len(rotation_sites) > 0 THEN RotationHit(pm, active, pos) ELSE -1
    IN IF primary_site # "none" /\ SiteFree(primary_site, active) /\ pm[primary_site] # <<>>
       THEN [kind |-> "priority", task |-> Head(pm[primary_site]), dq |-> dq,
             pm |-> [pm EXCEPT ![primary_site] = Tail(@)], pos |-> pos]
       ELSE IF k >= 0
       THEN [kind |-> "rotation", task |-> Head(pm[RotationSite(pos, k)]), dq |-> dq,
             pm |-> [pm EXCEPT ![RotationSite(pos, k)] = Tail(@)],
             pos |-> NextPos(pos, k)]
       ELSE IF i # 0
       THEN [kind |-> "detail", task |-> dq[i], dq |-> RotatedDetail(dq, i), pm |-> pm, pos |-> pos]
       ELSE [kind |-> "none", task |-> NoTask, dq |-> dq, pm |-> pm, pos |-> pos]

\* what schedule_next_task does after the two admission checks passed
Pick(dq, pm, active, pos) ==
    LET i == FirstFreeDetail(dq, active)
        k == IF Len(rotation_sites) > 0 THEN RotationHit(pm, active, pos) ELSE -1
    IN IF i # 0
       THEN [kind |-> "detail", task |-> dq[i], dq |-> RotatedDetail(dq, i), pm |-> pm, pos |-> pos]
       ELSE IF primary_site # "none" /\ SiteFree(primary_site, active) /\ pm[primary_site] # <<>>
       THEN [kind |-> "priority", task |-> Head(pm[primary_site]), dq |-> dq,
             pm |-> [pm EXCEPT ![primary_site] = Tail(@)], pos |-> pos]
       ELSE IF k >= 0
       THEN [kind |-> "rotation", task |-> Head(pm[RotationSite(pos, k)]), dq |-> dq,
             pm |-> [pm EXCEPT ![RotationSite(pos, k)] = Tail(@)],
             pos |-> NextPos(pos, k)]
       ELSE [kind |-> "none", task |-> NoTask, dq |-> dq, pm |-> pm, pos |-> pos]

\* schedule_next_task after _requeue_ready_retries
Picked ==
    Pick(RequeuedDetail(retry_heap, detail_queue), RequeuedMain(retry_heap, pending_main),
         active_sites, rotation_pos)

\* _execute_task: the dependency argument handed to adapter.run for item t
dependency(t) == mem_dep[t]

launch_task_site_free(t) ==
    /\ active_sites' = active_sites
    /\ tasks' = mark_task_running(tasks, t)
    /\ running' = running \cup {t}
    /\ launches' = [launches EXCEPT ![t] = @ + 1]

\* _launch_task
launch_task(t) ==
    /\ active_sites' = active_sites \cup {Site(t)}
    /\ tasks' = mark_task_running(tasks, t)
    /\ running' = running \cup {t}
    /\ launches' = [launches EXCEPT ![t] = @ + 1]

\* schedule_next_task returning True: both admission checks passed, Picked.task launched
ScheduleLaunch ==
    /\ pc = "schedule"
    /\ ~AtCapacity(Cardinality(running), max_parallel)
    /\ \E snapshot \in Sampled(last_sample) :
        /\ allows_new_task(snapshot)
        /\ last_sample' = snapshot
    /\ Picked.kind # "none"
    /\ launch_task(Picked.task)
    /\ detail_queue' = Picked.dq
    /\ pending_main' = Picked.pm
    /\ rotation_pos' = Picked.pos
    /\ retry_heap' = RequeuedHeap(retry_heap)
    /\ UNCHANGED <<batch, configVars, cmd, blocked, store_error, pc, done, cur, mem_attempts, mem_dep, crashes, cooldown, interrupted,
                   observed>>

\* ... through the detail scan
ScheduleDetail ==
    /\ Picked.kind = "detail"
    /\ ScheduleLaunch

\* ... through the priority site
SchedulePriority ==
    /\ Picked.kind = "priority"
    /\ ScheduleLaunch

\* ... through the rotation scan
ScheduleRotation ==
    /\ Picked.kind = "rotation"
    /\ ScheduleLaunch

\* schedule_next_task returned False: at capacity (no sample is taken), admission
\* denied on the sample, or nothing to launch
NothingLaunched ==
    \/ /\ AtCapacity(Cardinality(running), max_parallel)
       /\ last_sample' = last_sample
    \/ /\ ~AtCapacity(Cardinality(running), max_parallel)
       /\ \E snapshot \in Sampled(last_sample) :
            /\ ~allows_new_task(snapshot) \/ Picked.kind = "none"
            /\ last_sample' = snapshot

QueuesEmpty(pm, dq, h) == (\A s \in AllSites : pm[s] = <<>>) /\ dq = <<>> /\ h = <<>>

\* ... and children are in flight: go on to asyncio.wait
ScheduleThenWait ==
    /\ pc = "schedule"
    /\ NothingLaunched
    /\ running # {}
    /\ detail_queue' = RequeuedDetail(retry_heap, detail_queue)
    /\ pending_main' = RequeuedMain(retry_heap, pending_main)
    /\ retry_heap' = RequeuedHeap(retry_heap)
    /\ pc' = "wait"
    /\ UNCHANGED <<storeVars, configVars, cmd, blocked, store_error, active_sites, running, rotation_pos, done, cur,
                   mem_attempts, mem_dep, crashes, histVars>>

\* ... nothing in flight, something queued: asyncio.sleep(1) and try again
ScheduleThenSleep ==
    /\ pc = "schedule"
    /\ NothingLaunched
    /\ running = {}
    /\ ~QueuesEmpty(pending_main, detail_queue, retry_heap)
    /\ detail_queue' = RequeuedDetail(retry_heap, detail_queue)
    /\ pending_main' = RequeuedMain(retry_heap, pending_main)
    /\ retry_heap' = RequeuedHeap(retry_heap)
    /\ UNCHANGED <<storeVars, configVars, cmd, blocked, store_error, pc, active_sites, running, rotation_pos, done, cur,
                   mem_attempts, mem_dep, crashes, histVars>>

\* ... nothing in flight, nothing queued: leave the loop, mark_batch_completed
FinishBatch ==
    /\ pc = "schedule"
    /\ NothingLaunched
    /\ running = {}
    /\ QueuesEmpty(pending_main, detail_queue, retry_heap)
    /\ batch' = mark_batch_completed(batch)
    /\ pc' = "stopped"
    /\ UNCHANGED <<tasks, configVars, cmd, blocked, store_error, pending_main, detail_queue, active_sites, retry_heap, running,
                   rotation_pos, done, cur, mem_attempts, mem_dep, crashes, histVars>>

\* asyncio.wait(..., FIRST_COMPLETED): the workers of D have finished, each in the
\* environment env it met.  The wait lasts an unknown time: the snapshot cached before
\* it is served again or replaced by a fresh one, and both are in Samples, so it is
\* dropped here
\* Popen(stdout=PIPE, stderr=PIPE): what the stderr pipe holds while nobody reads it
PipeCapacity == 2

\* what a child writes to standard error before it closes standard output
StderrWrites == 0..MaxStderr

\* ScraperAdapter.run reads stdout to end-of-file and reads stderr only after
\* process.wait(): a child that writes more than the pipe holds waits in write()
\* with stdout still open, and readline() waits for the child
child_blocks(err) == err > PipeCapacity

\* run_in_executor: the worker thread stays in adapter.run, its future is never done.
\* Counted with the crashes to bound the abnormal events of a run of the model
WaitChildBlocks ==
    /\ pc = "wait"
    /\ crashes < MaxCrashes
    /\ \E t \in running \ blocked, err \in StderrWrites :
        /\ child_blocks(err)
        /\ blocked' = blocked \cup {t}
    /\ crashes' = crashes + 1
    /\ UNCHANGED <<storeVars, configVars, cmd, pc, memVars, launches, cooldown, interrupted,
                   observed, store_error>>

Wait ==
    /\ pc = "wait"
    /\ \E D \in (SUBSET (running \ blocked)) \ {{}} :
        \E env \in [D -> Environments] :
            /\ \A t \in D : env[t] \in EnvironmentsOf(t)
            /\ \A t \in D : env[t].mkdir = "error" => crashes < MaxCrashes
            /\ observed' = {[task |-> t, env |-> env[t]] : t \in D}
            /\ done' = {execute_task(t, dependency(t), env[t]) : t \in D}
    /\ pc' = "reap"
    /\ last_sample' = NoSample
    /\ UNCHANGED <<storeVars, configVars, cmd, blocked, store_error, pending_main, detail_queue, active_sites, retry_heap,
                   running, rotation_pos, cur, mem_attempts, mem_dep, crashes,
                   launches, cooldown, interrupted>>

\* where the loop goes once the current result is fully handled
AfterReap(rest) == IF rest = {} THEN "schedule" ELSE "reap"

\* for finished in done: a success, up to the commit of mark_task_completed
ReapSuccess ==
    /\ pc = "reap"
    /\ \E r \in done :
        /\ r.success
        /\ running' = running \ {r.task}
        /\ active_sites' = active_sites \ {Site(r.task)}
        /\ tasks' = mark_task_completed(tasks, r.task, OutputFile(r.task))
        /\ done' = done \ {r}
        /\ cur' = r
    /\ pc' = "completed_progress"
    /\ observed' = {}
    /\ UNCHANGED <<batch, configVars, cmd, blocked, store_error, pending_main, detail_queue, retry_heap, rotation_pos,
                   mem_attempts, mem_dep, last_sample, crashes, launches, cooldown, interrupted>>

\* update_batch_progress(completed_delta=1)
ReapCompletedProgress ==
    /\ pc = "completed_progress"
    /\ batch' = update_batch_progress(batch, 1, 0)
    /\ IF ~IsDetail(cur.task)
       THEN pc' = "release" /\ cur' = cur
       ELSE pc' = AfterReap(done) /\ cur' = NoResult
    /\ UNCHANGED <<tasks, configVars, cmd, blocked, store_error, pending_main, detail_queue, active_sites, retry_heap,
                   running, rotation_pos, done, mem_attempts, mem_dep, last_sample, crashes, histVars>>

\* release_detail_tasks and the append of the released task objects
ReapRelease ==
    /\ pc = "release"
    /\ LET rel == ReleasedRows(tasks, cur.task)
       IN /\ tasks' = release_detail_tasks(tasks, cur.task, OutputFile(cur.task))
          /\ detail_queue' = detail_queue \o SortedSeq(rel)
          /\ mem_attempts' = [t \in AllTasks |-> IF t \in rel THEN tasks[t].attempts ELSE mem_attempts[t]]
          /\ mem_dep' = [t \in AllTasks |-> IF t \in rel THEN tasks[t].dependency_path ELSE mem_dep[t]]
    /\ cur' = NoResult
    /\ pc' = AfterReap(done)
    /\ UNCHANGED <<batch, configVars, cmd, blocked, store_error, pending_main, active_sites, retry_heap, running,
                   rotation_pos, done, last_sample, crashes, histVars>>

\* a failure that will be retried: mark_task_failed, then the push on retry_heap
ReapFailureRetry ==
    /\ pc = "reap"
    /\ \E r \in done :
        /\ ~r.success /\ ~r.raised
        /\ WillRetry(mem_attempts[r.task], tasks[r.task].max_attempts)
        /\ running' = running \ {r.task}
        /\ active_sites' = active_sites \ {Site(r.task)}
        /\ tasks' = mark_task_failed(tasks, r.task, TRUE)
        /\ mem_attempts' = [mem_attempts EXCEPT ![r.task] = @ + 1]
        /\ retry_heap' = Append(retry_heap, [task |-> r.task, wait |-> RetryDelay])
        /\ cooldown' = [cooldown EXCEPT ![r.task] = RetryDelay]
        /\ done' = done \ {r}
        /\ pc' = AfterReap(done \ {r})
    /\ observed' = {}
    /\ UNCHANGED <<batch, configVars, cmd, blocked, store_error, pending_main, detail_queue, rotation_pos, cur,
                   mem_dep, last_sample, crashes, launches, interrupted>>

\* an entry of the heap has the due time a push made now would get
SameDueTime(h) == \E i \in DOMAIN h : h[i].wait = RetryDelay

\* a failure that will be retried while the heap holds an entry pushed within the
\* same clock reading: the due times can be equal, heappush then compares the two
\* ScrapingTask objects and raises TypeError after mark_task_failed has committed;
\* the exception leaves run_batch and the process ends
ReapFailureHeapTie ==
    /\ pc = "reap"
    /\ \E r \in done :
        /\ ~r.success /\ ~r.raised
        /\ WillRetry(mem_attempts[r.task], tasks[r.task].max_attempts)
        /\ SameDueTime(retry_heap)
        /\ tasks' = mark_task_failed(tasks, r.task, TRUE)
        /\ cooldown' = [cooldown EXCEPT ![r.task] = RetryDelay]
    /\ crashes < MaxCrashes
    /\ crashes' = crashes + 1
    /\ pc' = "stopped"
    /\ pending_main' = EmptyQueues
    /\ detail_queue' = <<>>
    /\ active_sites' = {}
    /\ retry_heap' = <<>>
    /\ running' = {}
    /\ rotation_pos' = 1
    /\ done' = {}
    /\ cur' = NoResult
    /\ mem_attempts' = [t \in AllTasks |-> 0]
    /\ mem_dep' = [t \in AllTasks |-> NoPath]
    /\ last_sample' = NoSample
    /\ observed' = {}
    /\ blocked' = {}
    /\ UNCHANGED <<batch, configVars, cmd, store_error, launches, interrupted>>

\* a failure with no retry left, up to the commit of mark_task_failed
ReapFailureFinal ==
    /\ pc = "reap"
    /\ \E r \in done :
        /\ ~r.success /\ ~r.raised
        /\ ~WillRetry(mem_attempts[r.task], tasks[r.task].max_attempts)
        /\ running' = running \ {r.task}
        /\ active_sites' = active_sites \ {Site(r.task)}
        /\ tasks' = mark_task_failed(tasks, r.task, FALSE)
        /\ done' = done \ {r}
        /\ cur' = r
    /\ pc' = "failed_progress"
    /\ observed' = {}
    /\ UNCHANGED <<batch, configVars, cmd, blocked, store_error, pending_main, detail_queue, retry_heap, rotation_pos,
                   mem_attempts, mem_dep, last_sample, crashes, launches, cooldown, interrupted>>

\* finished.result() raises what the worker raised: the exception leaves the reap loop,
\* run_batch and asyncio.run, and the process ends
ReapRaise ==
    /\ pc = "reap"
    /\ \E r \in done : r.raised
    /\ crashes < MaxCrashes
    /\ crashes' = crashes + 1
    /\ pc' = "stopped"
    /\ pending_main' = EmptyQueues
    /\ detail_queue' = <<>>
    /\ active_sites' = {}
    /\ retry_heap' = <<>>
    /\ running' = {}
    /\ rotation_pos' = 1
    /\ done' = {}
    /\ cur' = NoResult
    /\ mem_attempts' = [t \in AllTasks |-> 0]
    /\ mem_dep' = [t \in AllTasks |-> NoPath]
    /\ last_sample' = NoSample
    /\ observed' = {}
    /\ blocked' = {}
    /\ UNCHANGED <<storeVars, configVars, cmd, store_error, launches, cooldown, interrupted>>

\* mark_task_completed or mark_task_failed raises sqlite3.Error (database is locked,
\* disk I/O error): nothing is committed, nothing in run_batch catches it, the
\* exception leaves the reap loop and run_batch
ReapStoreError ==
    /\ pc = "reap"
    /\ \E r \in done :
        /\ ~r.raised
        /\ store_error' = r
    /\ crashes < MaxCrashes
    /\ crashes' = crashes + 1
    /\ pc' = "stopped"
    /\ pending_main' = EmptyQueues
    /\ detail_queue' = <<>>
    /\ active_sites' = {}
    /\ retry_heap' = <<>>
    /\ running' = {}
    /\ rotation_pos' = 1
    /\ done' = {}
    /\ cur' = NoResult
    /\ mem_attempts' = [t \in AllTasks |-> 0]
    /\ mem_dep' = [t \in AllTasks |-> NoPath]
    /\ last_sample' = NoSample
    /\ observed' = {}
    /\ blocked' = {}
    /\ UNCHANGED <<storeVars, configVars, cmd, launches, cooldown, interrupted>>

\* update_batch_progress(failed_delta=1)
ReapFailedProgress ==
    /\ pc = "failed_progress"
    /\ batch' = update_batch_progress(batch, 0, 1)
    /\ cur' = NoResult
    /\ pc' = AfterReap(done)
    /\ UNCHANGED <<tasks, configVars, cmd, blocked, store_error, pending_main, detail_queue, active_sites, retry_heap,
                   running, rotation_pos, done, mem_attempts, mem_dep, last_sample, crashes, histVars>>

\* monotonic() advances by one unit
Tick ==
    /\ \/ \E i \in DOMAIN retry_heap : retry_heap[i].wait > 0
       \/ \E t \in AllTasks : cooldown[t] > 0
    /\ retry_heap' = [i \in DOMAIN retry_heap |->
                        [retry_heap[i] EXCEPT !.wait = IF @ > 0 THEN @ - 1 ELSE 0]]
    /\ cooldown' = [t \in AllTasks |-> IF cooldown[t] > 0 THEN cooldown[t] - 1 ELSE 0]
    /\ UNCHANGED <<storeVars, configVars, cmd, blocked, store_error, pc, pending_main, detail_queue, active_sites,
                   running, rotation_pos, done, cur, mem_attempts, mem_dep, last_sample, crashes,
                   launches, interrupted, observed>>

\* the process is killed: the store is all that is left
Crash ==
    /\ pc # "stopped"
    /\ crashes < MaxCrashes
    /\ crashes' = crashes + 1
    /\ pc' = "stopped"
    /\ pending_main' = EmptyQueues
    /\ detail_queue' = <<>>
    /\ active_sites' = {}
    /\ retry_heap' = <<>>
    /\ running' = {}
    /\ rotation_pos' = 1
    /\ done' = {}
    /\ cur' = NoResult
    /\ mem_attempts' = [t \in AllTasks |-> 0]
    /\ mem_dep' = [t \in AllTasks |-> NoPath]
    /\ last_sample' = NoSample
    /\ observed' = {}
    /\ blocked' = {}
    /\ UNCHANGED <<storeVars, configVars, cmd, store_error, launches, cooldown, interrupted>>

\* cmd_run, lines 304-307: a KeyboardInterrupt ends asyncio.run; run_batch is cancelled
\* where it stands, the results of the children in flight are dropped
Interrupt ==
    /\ pc # "stopped"
    /\ crashes < MaxCrashes
    /\ crashes' = crashes + 1
    /\ interrupted' = TRUE
    /\ pc' = "stopped"
    /\ pending_main' = EmptyQueues
    /\ detail_queue' = <<>>
    /\ active_sites' = {}
    /\ retry_heap' = <<>>
    /\ running' = {}
    /\ rotation_pos' = 1
    /\ done' = {}
    /\ cur' = NoResult
    /\ mem_attempts' = [t \in AllTasks |-> 0]
    /\ mem_dep' = [t \in AllTasks |-> NoPath]
    /\ last_sample' = NoSample
    /\ observed' = {}
    /\ blocked' = {}
    /\ UNCHANGED <<storeVars, configVars, cmd, store_error, launches, cooldown>>

\* cmd_run: asyncio.run(runner.run_batch(batch)) on the prepared batch or, with
\* --resume, on the batch find_open_batch returns
RunBatch ==
    /\ pc = "stopped"
    /\ batch.status = "running"
    /\ Load(tasks)
    /\ interrupted' = FALSE
    /\ cmd' = NoCmd
    /\ blocked' = {}
    /\ store_error' = NoResult
    /\ UNCHANGED <<storeVars, configVars, crashes, launches, cooldown, observed>>

\* ------------------------------------------------------------------------
\* cmd_run without --resume: find_open_batch, load_tasks, prepare_batch
\* ------------------------------------------------------------------------
\* execution_number of the batch of the model, the one row of execution_batches
ExecutionNumber == 1
\* largest execution number in use the properties of next_execution_number look at
MaxExecution == 3
\* SELECT execution_number FROM execution_batches WHERE month_year = ?
Taken == {ExecutionNumber}

\* now.day, on either side of the 15th
Days == {15, 16}
desired_execution(day) == IF day <= 15 THEN 1 ELSE 2

RECURSIVE next_execution_number(_, _)
next_execution_number_unchecked(taken, desired) == desired

\* candidate = desired; while candidate in taken: candidate += 1
next_execution_number(taken, desired) ==
    IF desired \in taken THEN next_execution_number(taken, desired + 1) ELSE desired

\* create_batch: the INSERT OR REPLACE has five placeholders and is given six values,
\* sqlite3 raises ProgrammingError before a row is written
create_batch(total) == NoBatch

\* prepare_batch, for commands of the month of the batch of the model
prepare_batch(stored, planned, day) ==
    IF planned = {}
    THEN [NoCmd EXCEPT !.outcome = "value_error", !.stored = stored]
    ELSE LET desired == desired_execution(day)
             execution_number == next_execution_number(Taken, desired)
         IN [outcome |-> "create_batch_raised",
             rows |-> Cardinality(planned),
             desired |-> desired,
             execution_number |-> execution_number,
             stored |-> stored \cup planned,
             batch |-> create_batch(Cardinality(planned))]

HasTasksUnchecked(planned) == TRUE

\* cmd_run: `if not tasks` is false
HasTasks(planned) == planned # {}

\* cmd_run from load_tasks on, without --dry-run
run_plan(stored, planned, day) ==
    IF ~HasTasks(planned)
    THEN [NoCmd EXCEPT !.outcome = "no_tasks", !.stored = stored]
    ELSE prepare_batch(stored, planned, day)

\* the items of the batch of the model
Stored == {t \in AllTasks : tasks[t].status # "absent"}

\* cmd_run without --resume and without --dry-run while no process runs the batch;
\* with an open batch it returns at once.  The catalog is the one the batch of the
\* model was planned from, or has no rows
find_open_batch_none(b) == NoBatch

\* find_open_batch: the row of execution_batches of status running or created
find_open_batch(b) == IF b.status \in {"running", "created"} THEN b ELSE NoBatch

CmdRun ==
    /\ pc = "stopped"
    /\ find_open_batch(batch) = NoBatch
    /\ \E planned \in {Stored, {}}, day \in Days :
          cmd' = run_plan(cmd.stored, planned, day)
    /\ UNCHANGED <<storeVars, configVars, pc, memVars, crashes, launches, cooldown,
                   interrupted, observed, blocked, store_error>>

\* prepare_batch: insert_tasks, then reset_running_tasks
PreparedTasks(planned, maxAtt) ==
    reset_running_tasks(insert_tasks([t \in AllTasks |-> AbsentRow], planned, maxAtt))

\* the batch prepare_batch asks for: total_tasks = len(tasks), the other columns at
\* their defaults
PreparedBatch(total) ==
    [status |-> "running", total_tasks |-> total, completed_tasks |-> 0, failed_tasks |-> 0]

Init ==
    /\ max_attempts \in 0..MaxAttemptsCfg
    /\ max_parallel \in 1..MaxParallelCfg
    /\ \E catalog \in Catalogs :
        /\ tasks = PreparedTasks(Planned(catalog), max_attempts)
        /\ batch = PreparedBatch(Cardinality(Planned(catalog)))
    /\ pc = "stopped"
    /\ crashes = 0
    /\ launches = [t \in AllTasks |-> 0]
    /\ cooldown = [t \in AllTasks |-> 0]
    /\ interrupted = FALSE
    /\ observed = {}
    /\ cmd = NoCmd
    /\ blocked = {}
    /\ store_error = NoResult
    /\ EmptyMemory

Next ==
    \/ CmdRun
    \/ RunBatch
    \/ ScheduleDetail
    \/ SchedulePriority
    \/ ScheduleRotation
    \/ ScheduleThenWait
    \/ WaitChildBlocks
    \/ ScheduleThenSleep
    \/ FinishBatch
    \/ Wait
    \/ ReapSuccess
    \/ ReapCompletedProgress
    \/ ReapRelease
    \/ ReapFailureRetry
    \/ ReapFailureHeapTie
    \/ ReapFailureFinal
    \/ ReapFailedProgress
    \/ ReapRaise
    \/ ReapStoreError
    \/ Tick
    \/ Crash
    \/ Interrupt

Spec == Init /\ [][Next]_vars

TypeOK ==
    /\ pc \in {"stopped", "schedule", "wait", "reap", "completed_progress", "release", "failed_progress"}
    /\ running \subseteq AllTasks
    /\ blocked \subseteq running
    /\ active_sites \subseteq AllSites

\* every launched child eventually returns, admission eventually admits, time passes,
\* the operator starts the run and resumes an open batch; a crash is never forced
FairSpec ==
    /\ Spec
    /\ WF_vars(RunBatch)
    /\ SF_vars(ScheduleDetail \/ SchedulePriority \/ ScheduleRotation)
    /\ WF_vars(ScheduleThenWait)
    /\ WF_vars(FinishBatch)
    /\ WF_vars(Wait)
    /\ WF_vars(ReapSuccess \/ ReapFailureRetry \/ ReapFailureFinal \/ ReapRaise)
    /\ WF_vars(ReapCompletedProgress \/ ReapRelease \/ ReapFailedProgress)
    /\ WF_vars(Tick)

\* ------------------------------------------------------------------------
\* Properties
\* ------------------------------------------------------------------------
DetailIds == {t \in AllTasks : IsDetail(t)}
StoredDetails == {t \in Stored : IsDetail(t)}
Queued(t) == t \in SeqToSet(detail_queue) \/ \E s \in AllSites : t \in SeqToSet(pending_main[s])

SiteExclusive == \A s \in AllSites : Cardinality({t \in running : Site(t) = s}) <= 1
LaunchOnFreeSite == \A t \in running' \ running : Site(t) \notin active_sites

\* C1: at most one in-flight item per site code, and no launch on a site that is
\* in active_sites
C1_SiteExclusivity == []SiteExclusive /\ [][LaunchOnFreeSite]_vars

\* an item is held back only by its site: capacity is left and the loop went on to wait
C1_Witness ==
    /\ pc = "wait"
    /\ ~AtCapacity(Cardinality(running), max_parallel)
    /\ \E t \in running : \E u \in AllTasks : u # t /\ Site(u) = Site(t) /\ Queued(u)

\* C2: a detail item is marked running / in flight only while the primary named by
\* its depends_on is stored as completed
C2_DependencyGating ==
    \A d \in StoredDetails :
        (d \in running \/ tasks[d].status = "running") => tasks[DependsOn(d)].status = "completed"

\* a detail loaded from the store by a resumed run_batch is in flight
C2_Witness ==
    /\ crashes > 0
    /\ \E d \in running : IsDetail(d) /\ mem_dep[d] # NoPath

\* C3: in a running process every item stored as running has a live worker
C3_StartupRecovery ==
    pc # "stopped" => \A t \in Stored : tasks[t].status = "running" => t \in running

\* C4: a batch completed by an uninterrupted run_batch has
\* completed_tasks + failed_tasks = total_tasks
C4_TerminalAccounting ==
    (batch.status = "completed" /\ crashes = 0) => batch.completed_tasks + batch.failed_tasks = batch.total_tasks

\* C5: mark_batch_completed runs only when remaining_task_count is 0
C5_BatchFinalisation ==
    [][(batch.status # "completed" /\ batch'.status = "completed")
            => remaining_task_count(tasks) = 0]_vars

\* C6: once the reap of a terminally failed primary is over, its detail is stored as
\* failed with reason "upstream failed"
C6_UpstreamFailedCascade ==
    \A d \in StoredDetails :
        (tasks[DependsOn(d)].status = "failed" /\ pc \in {"schedule", "wait"})
            => (tasks[d].status = "failed" /\ tasks[d].error_message = "upstream failed")

\* C7: the number of in-flight items never exceeds max_parallel
C7_ParallelismBound == Cardinality(running) <= max_parallel

\* the cap alone holds an item back: its site is free, one item is in flight
C7_Witness ==
    /\ pc = "wait"
    /\ max_parallel = 1
    /\ Cardinality(running) = 1
    /\ \E u \in AllTasks : Queued(u) /\ Site(u) \in SeqToSet(PrioritySites) /\ Site(u) \notin active_sites

AttemptsBounded == \A t \in Stored : tasks[t].attempts <= tasks[t].max_attempts
AttemptsMonotone == \A t \in AllTasks : tasks'[t].attempts >= tasks[t].attempts

\* C8: stored attempts never decreases and never exceeds max_attempts
C8_AttemptBound == []AttemptsBounded /\ [][AttemptsMonotone]_vars

\* C9: the batch is eventually marked completed and every stored pending primary is
\* eventually launched
C9_Termination ==
    /\ (batch.status = "running") ~> (batch.status = "completed")
    /\ \A t \in AllTasks :
        (~IsDetail(t) /\ tasks[t].status = "pending") ~> tasks[t].started_at

\* C10: a detail is blocked while its primary is not completed, and by the time the
\* batch is marked completed every detail of a completed primary has left blocked with
\* the primary's output_path as dependency_path
C10_Unblocking ==
    \A d \in StoredDetails :
        /\ tasks[DependsOn(d)].status # "completed" => tasks[d].status = "blocked"
        /\ (batch.status = "completed" /\ tasks[DependsOn(d)].status = "completed")
            => (/\ tasks[d].status # "blocked"
                /\ tasks[d].dependency_path = tasks[DependsOn(d)].output_path)

Launched == running' \ running

\* C11: every launch of a detail item hands the child launcher a dependency path equal
\* to the output_path of its completed primary, whether the item was released in this
\* run or loaded from the store by a resumed run
C11_DependencyHandoff ==
    [][\A d \in Launched :
          IsDetail(d) => /\ tasks[DependsOn(d)].status = "completed"
                         /\ dependency(d) = tasks[DependsOn(d)].output_path]_vars

FailedRows == {t \in Stored : tasks[t].status = "failed"}
CompletedRows == {t \in Stored : tasks[t].status = "completed"}

\* C12 as stated: an item that fails once and then succeeds ends completed with
\* attempts = 2, and failed_tasks of its batch stays 0
C12_RetryThenSucceed ==
    \A t \in CompletedRows :
        launches[t] = 2 => /\ tasks[t].attempts = 2
                           /\ Cardinality(Stored) = 1 => batch.failed_tasks = 0

\* C12 amended: attempts counts the failed launches only, so a completed item has
\* attempts = launches - 1 (1 after one failure and one success), and a retried
\* failure is not counted in failed_tasks
C12_AttemptsCountFailures ==
    \A t \in CompletedRows :
        /\ tasks[t].attempts = launches[t] - 1
        /\ Cardinality(Stored) = 1 => batch.failed_tasks = 0

\* an item completed on its second launch
C12_Witness == \E t \in CompletedRows : launches[t] = 2 /\ tasks[t].attempts = 1

InRetryHeap == {retry_heap[i].task : i \in DOMAIN retry_heap}

\* C13: in a run without crashes an item that ends failed was launched exactly
\* max_attempts times and has attempts = max_attempts; an item with max_attempts = 1
\* is never put on the retry heap
C13_RetryBudget ==
    /\ crashes = 0 =>
           \A t \in FailedRows : /\ launches[t] = tasks[t].max_attempts
                                  /\ tasks[t].attempts = tasks[t].max_attempts
    /\ \A t \in InRetryHeap : tasks[t].max_attempts # 1

\* the entry _requeue_ready_retries pops first has the earliest due time
EarliestDueFirst ==
    \A i \in DOMAIN retry_heap : \A j \in DOMAIN retry_heap :
        i < j => retry_heap[i].wait <= retry_heap[j].wait

\* no launch of an item before retry_delay has passed since its last retried failure
LaunchAfterDelay == \A t \in Launched : cooldown[t] = 0

\* C14: an item that failed with will_retry is not launched again before retry_delay
\* has elapsed since the failure, in a resumed process too, and the retry with the
\* earliest due time is re-queued first
C14_RetryDelay == []EarliestDueFirst /\ [][LaunchAfterDelay]_vars

\* no child failure has been recorded in the batch
NoFailureRecorded == \A t \in Stored : tasks[t].attempts = 0 /\ tasks[t].status # "failed"

\* C15: a batch that was interrupted and resumed ends with the terminal items of the
\* uninterrupted run with the same child outcomes.  Stated for the outcomes "every
\* child succeeds", where the uninterrupted run ends with every item completed: once
\* the batch is marked completed with no failure recorded, every item is completed
C15_ResumeEquivalence ==
    (batch.status = "completed" /\ NoFailureRecorded) => Stored = CompletedRows

TerminalRows == CompletedRows \cup FailedRows

\* insert_tasks of the whole plan, reset_running_tasks and release_detail_tasks for any
\* primary leave the terminal rows of the store as they are
RepositoryKeepsTerminal ==
    \A t \in TerminalRows :
        /\ insert_tasks(tasks, Planned(Rows), max_attempts)[t] = tasks[t]
        /\ reset_running_tasks(tasks)[t] = tasks[t]
        /\ \A m \in AllTasks : release_detail_tasks(tasks, m, OutputFile(m))[t] = tasks[t]

\* no step changes the status of a terminal row or launches its item
TerminalStays ==
    \A t \in TerminalRows : tasks'[t].status = tasks[t].status /\ t \notin Launched

\* C16: once an item is stored as completed or failed no operation changes its status
\* and the item is never launched again
C16_TerminalAbsorbing == []RepositoryKeepsTerminal /\ [][TerminalStays]_vars

\* a resumed run launches an item while another item of the batch is terminal
C16_Witness == crashes > 0 /\ pc = "wait" /\ running # {} /\ TerminalRows # {}

\* C17: whenever the process is dead, completed_tasks is the number of rows stored as
\* completed and failed_tasks the number of rows stored as failed
C17_AtomicAccounting ==
    pc = "stopped" => /\ batch.completed_tasks = Cardinality(CompletedRows)
                      /\ batch.failed_tasks = Cardinality(FailedRows)

\* C18: completed_tasks + failed_tasks never exceeds total_tasks, and neither counter
\* exceeds the number of rows in its status (no item is counted twice)
C18_CounterBound ==
    /\ batch.completed_tasks + batch.failed_tasks <= batch.total_tasks
    /\ batch.completed_tasks <= Cardinality(CompletedRows)
    /\ batch.failed_tasks <= Cardinality(FailedRows)

\* a resumed run has finished the batch with every item counted, completed and failed ones
C18_Witness ==
    /\ crashes > 0
    /\ batch.status = "completed"
    /\ batch.completed_tasks > 0
    /\ batch.failed_tasks > 0
    /\ batch.completed_tasks + batch.failed_tasks = batch.total_tasks

PendingDetailsOf(site) == {d \in SeqToSet(detail_queue') : Site(d) = site}

\* C19: when schedule_next_task launches a primary of site s, no detail of site s is
\* waiting in detail_queue
C19_DetailPrecedence ==
    [][\A t \in Launched : ~IsDetail(t) => PendingDetailsOf(Site(t)) = {}]_vars

\* a detail was launched while a primary of its site is still queued
C19_Witness == \E d \in running : IsDetail(d) /\ pending_main[Site(d)] # <<>>

\* the priority site is busy or has no primary waiting, after the step
PrioritySiteServed ==
    PrioritySites[1] \in active_sites' \/ pending_main'[PrioritySites[1]] = <<>>

\* C20: when schedule_next_task launches a primary of a rotation site, the priority
\* site (first of the priority list) is busy or has no pending primary
C20_PrioritySitePreference ==
    [][\A t \in Launched :
          (~IsDetail(t) /\ Site(t) # PrioritySites[1]) => PrioritySiteServed]_vars

\* a primary of a rotation site is in flight next to an item of the priority site
C20_Witness ==
    /\ \E t \in running : Site(t) = PrioritySites[1]
    /\ \E u \in running : ~IsDetail(u) /\ Site(u) # PrioritySites[1]

\* items of the site and stage of t that come after t in `order`
LaterInOrder(t) ==
    {u \in AllTasks : Site(u) = Site(t) /\ IsDetail(u) = IsDetail(t) /\ Order(u) > Order(t)}

\* the first launch of an item comes before the first launch of every later item of
\* its site and stage
FirstLaunchInOrder ==
    \A t \in Launched : launches[t] = 0 => \A u \in LaterInOrder(t) : launches[u] = 0

\* C21: within a site and stage items are started in `order`, primaries and details,
\* in runs with retries (stated for the runs that are never interrupted)
C21_PerSiteFifo == [][crashes = 0 => FirstLaunchInOrder]_vars

AttemptsCfgs == 0..MaxAttemptsCfg

\* C22: insert_tasks applied again with the planned items of the batch leaves the
\* store as it is, whatever the items have gone through, and applied twice with the
\* plan of the whole catalog it gives what one application gives
C22_InsertIdempotence ==
    \A m \in AttemptsCfgs :
        /\ insert_tasks(tasks, Stored, m) = tasks
        /\ LET once == insert_tasks(tasks, Planned(Rows), m)
           IN insert_tasks(once, Planned(Rows), m) = once

\* items of the batch have progressed: a retried failure, an output, a released detail
C22_Witness ==
    /\ \E t \in Stored : tasks[t].attempts > 0 /\ tasks[t].status = "completed"
    /\ \E d \in StoredDetails : tasks[d].dependency_path # NoPath

\* C29: the loop never stores the batch status failed, and an uninterrupted run_batch
\* that has returned with every item terminal has marked the batch completed, failed
\* items or not
C29_BatchStatusOnFailures ==
    /\ batch.status \in {"running", "completed"}
    /\ (pc = "stopped" /\ crashes = 0 /\ Stored = TerminalRows) => batch.status = "completed"

\* run_batch has returned from a batch whose items all failed
C29_Witness == pc = "stopped" /\ crashes = 0 /\ Stored = FailedRows /\ batch.failed_tasks > 0

IsPrefix(a, b) == Len(a) <= Len(b) /\ SubSeq(b, 1, Len(a)) = a

Waiting ==
    SeqToSet(detail_queue) \cup UNION {SeqToSet(pending_main[s]) : s \in AllSites} \cup InRetryHeap

\* a launch happens only below max_parallel and on a sample under both targets
LaunchOnlyWhenAdmitted ==
    Launched # {} =>
        /\ Cardinality(running) < max_parallel
        /\ last_sample'.cpu_percent < cpu_target
        /\ last_sample'.memory_percent < memory_target

\* a call of schedule_next_task that launches nothing keeps every waiting item, and
\* the queued ones in their order
DenialKeepsQueues ==
    (pc = "schedule" /\ pc' \in {"schedule", "wait"} /\ Launched = {}) =>
        /\ Waiting' = Waiting
        /\ IsPrefix(detail_queue, detail_queue')
        /\ \A s \in AllSites : IsPrefix(pending_main[s], pending_main'[s])

\* C30: admission is granted iff the sample is under both targets (a sample of 0, 0
\* stands for missing metrics), no item is launched in a step where admission is
\* denied or len(running) >= max_parallel, and a denial loses or reorders nothing
C30_ResourceAdmission == [][LaunchOnlyWhenAdmitted /\ DenialKeepsQueues]_vars

\* admission was denied on the sample while an item could have been launched
C30_Witness ==
    /\ pc = "wait"
    /\ last_sample \in Samples
    /\ last_sample.cpu_percent >= cpu_target \/ last_sample.memory_percent >= memory_target
    /\ ~AtCapacity(Cardinality(running), max_parallel)
    /\ \E u \in AllTasks :
        Queued(u) /\ Site(u) \in SeqToSet(PrioritySites) /\ Site(u) \notin active_sites

\* C25: after a cancellation no item is launched, the items that were in flight have
\* finished with their outcomes stored (no row is left running), and the batch is
\* still in status running
C25_Cancellation ==
    interrupted => /\ batch.status = "running"
                   /\ running = {}
                   /\ \A t \in Stored : tasks[t].status # "running"

\* the worker of w got as far as calling subprocess.Popen
SpawnAttempted(w) ==
    w.env.mkdir = "ok" /\ PopenCalled(w.task, dependency(w.task), w.env)

\* a child process was started for w
ChildSpawned(w) == w.env.mkdir = "ok" /\ Spawned(w.task, dependency(w.task), w.env)

\* the child of w exited with code 0 and left its declared output file with size > 0
ExitedWithOutput(w) ==
    ChildSpawned(w) /\ w.env.returncode = 0 /\ w.env.output = "written"

\* what asyncio.wait hands to the loop for each worker: success exactly for a child
\* that exited with code 0 and wrote its output, a failure result for every other end
\* of a spawn attempt
ResultMatchesChild ==
    (pc = "wait" /\ pc' = "reap") =>
        \A w \in observed' :
            \E r \in done' :
                /\ r.task = w.task
                /\ r.success <=> ExitedWithOutput(w)
                /\ (SpawnAttempted(w) /\ ~ExitedWithOutput(w)) => (~r.success /\ ~r.raised)

\* what the loop stores for a result: completed with the output path for a success
\* and for nothing else, retrying or failed for a failure
ResultPersisted ==
    /\ \A t \in AllTasks :
        (tasks[t].status # "completed" /\ tasks'[t].status = "completed") =>
            /\ \E r \in done : r.task = t /\ r.success
            /\ tasks'[t].output_path = OutputFile(t)
    /\ \A r \in done \ done' :
        pc' # "stopped" =>
            IF r.success
            THEN tasks'[r.task].status = "completed"
            ELSE tasks'[r.task].status \in {"retrying", "failed"}

\* C26: the launcher reports success, and the loop stores completed with the output
\* path, iff the child exited with code 0 and its output file exists with size > 0;
\* exit code 0 with a missing or empty output, a non-zero exit code and a spawn error
\* are each a failure of that item
C26_CompletionContract == [][ResultMatchesChild /\ ResultPersisted]_vars

\* a child that exited with code 0 and an empty output file was reported as a failure
C26_Witness ==
    /\ pc = "reap"
    /\ \E w \in observed :
        /\ ChildSpawned(w) /\ w.env.returncode = 0 /\ w.env.output = "empty"
        /\ \E r \in done : r.task = w.task /\ ~r.success /\ ~r.raised

\* the file dependency_path names is there and not empty
DependencyReady(w) ==
    dependency(w.task) # NoPath /\ w.env.dependency_file = "written"

\* C27: no child is spawned for a detail item whose dependency_path is not set, does
\* not exist or is empty; the item fails at once
C27_DetailPreflight ==
    [][(pc = "wait" /\ pc' = "reap") =>
          \A w \in observed' :
              (IsDetail(w.task) /\ ~DependencyReady(w)) =>
                  /\ ~ChildSpawned(w)
                  /\ \E r \in done' : r.task = w.task /\ ~r.success /\ ~r.raised]_vars

\* C28: whatever a worker raises reaches the reap loop as a failure result of its
\* item, never as an exception out of finished.result()
C28_FailureIsolation == \A r \in done : ~r.raised

\* n is the smallest integer >= desired that is not in taken
SmallestUnused(taken, desired, n) ==
    /\ n >= desired
    /\ n \notin taken
    /\ \A k \in desired..(n - 1) : k \in taken

\* prepare_batch has formed a batch_id
NumberChosen == cmd.execution_number # 0

\* a cmd_run step leaves the row of the existing batch and the rows of its items alone
ExistingBatchKept == (cmd' # cmd /\ pc' = "stopped") => (batch' = batch /\ tasks' = tasks)

\* C23: prepare_batch takes the smallest execution number >= desired (1 up to the
\* 15th, 2 after) that no batch of the month uses, whatever the numbers in use, so the
\* batch it prepares never has the batch_id of an existing batch and never overwrites
\* its row or counters
C23_BatchIdentity ==
    /\ [](\A taken \in SUBSET (1..MaxExecution) : \A day \in Days :
            SmallestUnused(taken, desired_execution(day),
                           next_execution_number(taken, desired_execution(day))))
    /\ [](NumberChosen =>
            /\ cmd.desired \in {1, 2}
            /\ SmallestUnused(Taken, cmd.desired, cmd.execution_number))
    /\ [][ExistingBatchKept]_vars

\* prepare_batch ran before the 16th while the batch of the model holds number 1: it
\* passed over the desired number
C23_Witness ==
    /\ NumberChosen
    /\ cmd.desired = ExecutionNumber
    /\ cmd.execution_number > cmd.desired
    /\ batch.status = "completed" /\ batch.completed_tasks > 0

\* the last cmd_run loaded a catalog with zero rows
EmptyCatalogRun == cmd.outcome # "none" /\ cmd.rows = 0

\* C24 as claimed: a run on a catalog with zero rows leaves a batch with
\* total_tasks = 0 and status completed
C24_EmptyCatalogCompletes ==
    EmptyCatalogRun => (cmd.batch.status = "completed" /\ cmd.batch.total_tasks = 0)

\* a cmd_run step on an empty catalog stores nothing and launches nothing
EmptyCatalogStep ==
    (cmd' # cmd /\ cmd'.outcome # "none" /\ cmd'.rows = 0) =>
        /\ cmd'.stored = cmd.stored
        /\ batch' = batch /\ tasks' = tasks
        /\ running' = {} /\ launches' = launches
        /\ pc' = "stopped"

\* C24: a run on a catalog with zero rows is refused with "no tasks" before
\* prepare_batch is called: it creates no batch, stores no item and launches no child
C24_EmptyCatalogRefused ==
    /\ [](EmptyCatalogRun => (cmd.outcome = "no_tasks" /\ cmd.batch = NoBatch))
    /\ [][EmptyCatalogStep]_vars

\* cmd_run has returned from a catalog with zero rows
C24_Witness == cmd.outcome = "no_tasks" /\ cmd.rows = 0 /\ pc = "stopped" /\ running = {}

\* site codes of the items in flight
RunningSites == {Site(t) : t \in running}

\* a launch takes the site of the item it launches, a reap gives back the site of
\* the item it reaps, and nothing else touches active_sites
SitePairing ==
    /\ \A t \in Launched : Site(t) \in active_sites'
    /\ \A t \in running \ running' : pc' # "stopped" => Site(t) \notin active_sites'

\* C33: every launch adds the item's site to active_sites and every reap removes it;
\* wherever the loop evaluates admission active_sites is exactly the set of sites of
\* the items in flight
C33_MutexPairing ==
    /\ [](pc = "schedule" => active_sites = RunningSites)
    /\ [][SitePairing]_vars

\* admission is evaluated after a reap while another item is still in flight
C33_Witness ==
    /\ pc = "schedule"
    /\ Cardinality(running) = 1
    /\ \E t \in Stored : tasks[t].status \in {"completed", "failed", "retrying"}
    /\ \E s \in AllSites : s \notin active_sites /\ \E t \in Stored : Site(t) = s /\ launches[t] > 0

\* no two rows of ts have the same task_key
UniqueKeys(ts) ==
    LET rows == {t \in AllTasks : ts[t].status # "absent"}
    IN \A t \in rows : KeyMates[t] \cap rows = {t}

C36_OutputPathInjectivity ==
    \A t \in Stored : \A u \in Stored : t # u => OutputFile(t) # OutputFile(u)

\* the items the planner emits for row r of the catalog
PrimariesOf(catalog, r) == {t \in Planned(catalog) : RowOf(t) = r /\ ~IsDetail(t)}
DetailsOf(catalog, r) == {t \in Planned(catalog) : RowOf(t) = r /\ IsDetail(t)}

\* one pending primary per row and, iff the site of the row declares a detail stage,
\* one blocked detail that names the primary and has its order and max_attempts
PlannerShape ==
    \A catalog \in Catalogs :
        /\ \A t \in Planned(catalog) : RowOf(t) \in catalog
        /\ \A r \in catalog : \A m \in AttemptsCfgs :
            /\ Cardinality(PrimariesOf(catalog, r)) = 1
            /\ \A t \in PrimariesOf(catalog, r) : NewRow(t, m).status = "pending"
            /\ Cardinality(DetailsOf(catalog, r)) = (IF HasDetail(RowSite[r]) THEN 1 ELSE 0)
            /\ \A d \in DetailsOf(catalog, r) : \A t \in PrimariesOf(catalog, r) :
                /\ NewRow(d, m).status = "blocked"
                /\ depends_on(d) = task_key(t)
                /\ Order(d) = Order(t)
                /\ NewRow(d, m).max_attempts = NewRow(t, m).max_attempts

\* C35: the planner emits one pending primary per catalog row and, iff the row's site
\* declares a detail stage, one blocked detail whose depends_on is the task_key of
\* that primary and whose order and max_attempts are the primary's; every stored
\* detail's depends_on names a primary stored in the same batch
C35_PlannerShape ==
    /\ PlannerShape
    /\ \A d \in StoredDetails :
        /\ HasDetail(Site(d))
        /\ \E t \in Stored : ~IsDetail(t) /\ task_key(t) = depends_on(d)
        /\ tasks[d].max_attempts = tasks[DependsOn(d)].max_attempts
    /\ \A t \in Stored : ~IsDetail(t) => (HasDetail(Site(t)) <=> Detail(RowOf(t)) \in Stored)

\* a batch planned from a row with a detail stage and a row without one, the detail
\* released
C35_Witness ==
    /\ \E d \in StoredDetails : tasks[d].status = "pending" /\ tasks[DependsOn(d)].status = "completed"
    /\ \E t \in Stored : ~IsDetail(t) /\ ~HasDetail(Site(t))

\* position of a rotation site in rotation_sites, and of the site after it
RotationIndex(site) == CHOOSE i \in DOMAIN rotation_sites : rotation_sites[i] = site
Successor(site) == (RotationIndex(site) % Len(rotation_sites)) + 1

\* the sites a scan that starts at pos passes before it reaches site
PassedBefore(pos, site) ==
    LET n == Len(rotation_sites)
        steps == (RotationIndex(site) - pos + n) % n
    IN {rotation_sites[((pos - 1 + j) % n) + 1] : j \in 0..(steps - 1)}

\* the primaries the rotation step launches
RotationLaunched == {t \in Launched : ~IsDetail(t) /\ Site(t) # primary_site}

\* a rotation launch takes the first site from the cursor on that is free and has a
\* pending primary, and leaves the cursor on its successor; no other step of a
\* running loop moves the cursor
RoundRobin ==
    /\ \A t \in RotationLaunched :
        /\ rotation_pos' = Successor(Site(t))
        /\ \A s \in PassedBefore(rotation_pos, Site(t)) :
            ~RotationOk(RequeuedMain(retry_heap, pending_main), active_sites, s)
    /\ (RotationLaunched = {} /\ pc # "stopped" /\ pc' # "stopped") =>
            rotation_pos' = rotation_pos

\* C34: the rotation cursor persists across admission decisions, a scan visits each
\* rotation site at most once, and after a launch on rotation site X the next scan
\* starts at X's successor, so X is not chosen again while another rotation site
\* that is free has a pending primary
C34_RoundRobinRotation == [][RoundRobin]_vars

\* the scan that followed a launch on the first rotation site started behind it and
\* launched on the second one while the first had failed and waits for its retry
C34_Witness ==
    /\ rotation_pos = 1
    /\ \E t \in running : ~IsDetail(t) /\ Site(t) = rotation_sites[2]
    /\ \E u \in Stored :
        Site(u) = rotation_sites[1] /\ launches[u] > 0 /\ tasks[u].status = "retrying"

\* C38: when an item fails with a retry left while the heap holds an entry of the
\* same due time, its entry is pushed without error and the loop keeps running
C38_EqualDueTimes ==
    [][\A t \in AllTasks :
          (tasks[t].status # "retrying" /\ tasks'[t].status = "retrying") =>
              (pc' # "stopped" /\ t \in InRetryHeap')]_vars

\* the batches a command finds open: the batch of the model and the one the last run
\* command wrote
OpenBatches(b, c) ==
    (IF find_open_batch(b) = NoBatch THEN 0 ELSE 1)
        + (IF find_open_batch(c.batch) = NoBatch THEN 0 ELSE 1)

\* run_batch of a resume command: the batch it runs is the open one, no row of
\* execution_batches is written and the rows of scraping_tasks stay the stored ones
ResumeCreatesNothing ==
    (pc = "stopped" /\ pc' # "stopped") =>
        /\ batch' = batch /\ find_open_batch(batch) = batch
        /\ cmd'.batch = NoBatch
        /\ {t \in AllTasks : tasks'[t].status # "absent"} = Stored

\* C37: at most one batch is open after any sequence of run and resume commands and
\* crashes; a run command went as far as prepare_batch only while no batch was
\* open, and a resume creates no batch
C37_SingleOpenBatch ==
    /\ [](OpenBatches(batch, cmd) <= 1)
    /\ [](cmd # NoCmd => find_open_batch(batch) = NoBatch)
    /\ [][ResumeCreatesNothing]_vars

\* a run command reached prepare_batch after the batch, resumed after a crash, had
\* been completed
C37_Witness ==
    /\ cmd.outcome = "create_batch_raised"
    /\ crashes > 0
    /\ batch.status = "completed"

\* C39: no worker stays in ScraperAdapter.run with its child waiting for room in
\* the stderr pipe: whatever a child writes, run returns an outcome
C39_LauncherNeverBlocks == blocked = {}

\* run_batch would queue the item when it loads the rows
ResumeEligible(ts, t) ==
    \/ t \in SeqToSet(LoadedDetail(ts))
    \/ \E s \in AllSites : t \in SeqToSet(LoadedMain(ts)[s])

\* the store commit of a result raised in this step
StoreErrorStep == store_error = NoResult /\ store_error' # NoResult

\* C31: a store commit that fails while an outcome is persisted does not end the
\* loop with the transition lost: the loop goes on to retry it or, if it stops, the
\* batch is still running and the item of the result is eligible on resume
C31_StoreErrorHandling ==
    [][StoreErrorStep =>
          \/ pc' # "stopped"
          \/ (batch'.status = "running" /\ ResumeEligible(tasks', store_error'.task))]_vars
====
